---------------------------- MODULE Spec2Model ----------------------------
(***************************************************************************)
(* State-machine model of the Renderer class of short-webgpu               *)
(* (src/src/short-webgpu/renderer.ts): the pipeline list, the render       *)
(* objects of each pipeline, the per-pipeline uniform buffer addressed by  *)
(* dynamic offsets, the two frame attachments and the commands one draw()  *)
(* records into its render pass, and the clear colour of that pass.        *)
(*                                                                         *)
(* Ids are 0-based as in the source; TLA+ sequences are 1-based, so the    *)
(* element with id i sits at position i + 1.                               *)
(*                                                                         *)
(* GPU objects are modelled by what the WebGPU API does with them: a       *)
(* buffer is its byte size and the byte intervals written so far, each     *)
(* tagged with the object whose transform block was written;               *)
(* queue.writeBuffer past the end of a buffer and createShaderModule on    *)
(* malformed WGSL raise no JavaScript exception (they are device-timeline  *)
(* validation errors): the write is dropped, and the pipeline object is    *)
(* returned and stored like any other.  The matrix arithmetic (Mat4) is    *)
(* outside the modelled source.                                            *)
(***************************************************************************)
EXTENDS Integers, Sequences, FiniteSets

VARIABLES
  limits,     \* this.limits: the two offset alignments the device reports
  width,      \* this.#width
  height,     \* this.#height
  msaa,       \* this.#msaa: size of the multisample colour attachment
  zbuffer,    \* this.#zbuffer: size of the depth attachment
  pipelines,  \* this.pipelines
  lastOp,     \* the method called last
  lastErr,    \* the exception it threw, NoError when it returned
  lastRet,    \* the id it returned, NoRet when it returned none
  shader,     \* the shader text handed to addPipeline, when that was the last call
  pass,       \* the commands the last draw() recorded into its render pass
  clearColor, \* this.clearColor, each component counted in 255ths
  clearArgs   \* the arguments of updateClearRGB, when that was the last call

vars == <<limits, width, height, msaa, zbuffer, pipelines,
          lastOp, lastErr, lastRet, shader, pass, clearColor, clearArgs>>

-----------------------------------------------------------------------------
(* Bounds of the model *)

MaxPipelines == 1     \* addPipeline calls explored
MaxObjects == 2       \* objects explored, over all pipelines

(* Input domains *)

Alignments == {64, 256}                    \* powers of two a device may report
CanvasSize == <<800, 600>>                 \* canvas.width, canvas.height at init
Sizes == {<<800, 600>>, <<400, 300>>}      \* sizes handed to updateCanvas
VertexCounts == {2, 3}                     \* verts.length
ObjCounts == {1, 2}                        \* maxObjCount
Shaders == {"wgsl", "malformed"}             \* shader text: compiles or not
VisibleInputs == {"undefined", "true", "false"}   \* UpdateData.visible
PipelineIds == 0..MaxPipelines             \* includes one id never issued
ObjectIds == 0..MaxObjects                 \* includes one id never issued

RECURSIVE SeqsOver(_, _)
SeqsOver(S, n) ==
  IF n = 0 THEN {<<>>}
  ELSE LET shorter == SeqsOver(S, n - 1)
       IN  shorter \cup {Append(s, x) : s \in {t \in shorter : Len(t) = n - 1}, x \in S}

\* pipeline lists a caller may ask to render: no repetition, any order
Requests ==
  {r \in SeqsOver(0..(MaxPipelines - 1), MaxPipelines) :
     \A i, j \in 1..Len(r) : i # j => r[i] # r[j]}

-----------------------------------------------------------------------------
(* Values *)

MvpBytes == 192       \* Float32Array(4 * 4 * 3): three mat4 of 4-byte floats

NoError == "none"
NoRet == -1
ErrVertices == "Not enough vertices"
ErrTypeError == "TypeError: pipe is undefined"
ErrPipeline == "Could not find pipeline"
ErrObject == "Could not find object"

Max(a, b) == IF a >= b THEN a ELSE b
Min(a, b) == IF a <= b THEN a ELSE b

\* variant of Find: an id past the end is clamped to the last element
FindClamped(arr, id) ==
  IF Len(arr) = 0 \/ id < 0 THEN 0 ELSE Min(id, Len(arr) - 1) + 1

\* arr[id]: the position of the element, 0 when arr[id] is undefined
Find(arr, id) == IF id \in 0..(Len(arr) - 1) THEN id + 1 ELSE 0

\* device.createTexture({size: [w, h]})
CreateTexture(w, h) == [width |-> w, height |-> h]

\* device.createBuffer({size}): nothing written yet
CreateBuffer(size) == [size |-> size, data |-> {}]

\* the part of interval r that lies outside [lo, hi)
Outside(r, lo, hi) ==
  {[r EXCEPT !.hi = Min(r.hi, lo)], [r EXCEPT !.lo = Max(r.lo, hi)]}

\* queue.writeBuffer(buf, offset, mvp): MvpBytes bytes of the block of
\* object `owner`; a write past the end of the buffer is dropped
WriteBuffer(buf, offset, owner) ==
  IF offset + MvpBytes > buf.size THEN buf
  ELSE [buf EXCEPT !.data =
          {s \in UNION {Outside(r, offset, offset + MvpBytes) : r \in buf.data} :
             s.lo < s.hi}
          \cup {[lo |-> offset, hi |-> offset + MvpBytes, owner |-> owner]}]

\* addBindGroup: the uniform buffer of the bind group (entries[0])
AddBindGroup(maxObjCount) ==
  [mvpBuffer |-> CreateBuffer(limits.minUniformBufferOffsetAlignment * maxObjCount)]


-----------------------------------------------------------------------------
(* Helpers of the operations *)

\* the number of objects stored, over the pipelines from position k on
RECURSIVE TotalObjects(_, _)
TotalObjects(ps, k) ==
  IF k > Len(ps) THEN 0 ELSE Len(ps[k].objects) + TotalObjects(ps, k + 1)

\* variant of NextSlot: the index of the last element instead of the length
NextSlotLast(pipe) == Max(Len(pipe.objects) - 1, 0)

\* addObject: const id = pipe.objects.length
NextSlot(pipe) == Len(pipe.objects)

\* variant of NewVisible: an omitted visible field counts as false
NewVisibleFalsy(visible) == visible = "true"

\* updateObject: visible ?? true
NewVisible(visible) == IF visible = "undefined" THEN TRUE ELSE visible = "true"

\* updateObject: the byte offset the transform block is written at
WriteOffset(obj) == limits.minStorageBufferOffsetAlignment * obj.pipelineIndex

\* draw: the dynamic offset bound for an object of the shared bind group
DrawOffset(obj) == limits.minUniformBufferOffsetAlignment * obj.pipelineIndex

\* variant of Skipped: the visibility test is left out
SkippedNever(obj) == FALSE

\* draw: if (!obj.visible) return
Skipped(obj) == ~obj.visible

\* variant of AddObjectError: the vertex-count test is left out
AddObjectErrorNoLength(pipelineId, vlen) ==
  IF Find(pipelines, pipelineId) = 0 THEN ErrTypeError ELSE NoError

\* addObject: the exception thrown before anything is stored
AddObjectError(pipelineId, vlen) ==
  IF vlen < 3 THEN ErrVertices
  ELSE IF Find(pipelines, pipelineId) = 0 THEN ErrTypeError
  ELSE NoError

\* updateObject: the exception thrown by the two lookups
UpdateObjectError(ps, pipelineId, objectId) ==
  IF Find(ps, pipelineId) = 0 THEN ErrPipeline
  ELSE IF Find(ps[Find(ps, pipelineId)].objects, objectId) = 0 THEN ErrObject
  ELSE NoError

\* updateObject past its lookups: sets the visibility flag and writes the
\* transform block into the pipeline's shared uniform buffer.  The branch
\* taken for an object with a private bind group copies the depth texture
\* into the private texture and writes no uniform buffer.
ApplyUpdate(ps, pipelineId, objectId, visible) ==
  LET p == Find(ps, pipelineId)
      o == Find(ps[p].objects, objectId)
      obj == [ps[p].objects[o] EXCEPT !.visible = NewVisible(visible)]
      buf == WriteBuffer(ps[p].bindGroup0.mvpBuffer, WriteOffset(obj), objectId)
  IN  [ps EXCEPT ![p] = [@ EXCEPT !.objects[o] = obj,
                                  !.bindGroup0 = [mvpBuffer |-> buf]]]

\* one command of a render pass
SetPipelineCmd(p) ==
  [cmd |-> "setPipeline", pipeline |-> p, object |-> NoRet,
   bind |-> "none", offset |-> 0, count |-> 0]

\* setBindGroup + draw for one object
DrawCmd(p, o, obj) ==
  [cmd |-> "draw", pipeline |-> p, object |-> o,
   bind |-> IF obj.customBindGroup # <<>> THEN "private" ELSE "shared",
   offset |-> IF obj.customBindGroup # <<>> THEN 0 ELSE DrawOffset(obj),
   count |-> obj.vertexCount]

\* pipeline.objects.forEach(...) from position k on
RECURSIVE ObjectCommands(_, _, _)
ObjectCommands(p, objs, k) ==
  IF k > Len(objs) THEN <<>>
  ELSE (IF Skipped(objs[k]) THEN <<>>
        ELSE <<SetPipelineCmd(p), DrawCmd(p, k - 1, objs[k])>>)
       \o ObjectCommands(p, objs, k + 1)

\* this.pipelines.forEach(...) from position k on
RECURSIVE PipelineCommands(_, _)
PipelineCommands(ps, k) ==
  IF k > Len(ps) THEN <<>>
  ELSE (IF Len(ps[k].objects) < 1 THEN <<>>
        ELSE ObjectCommands(k - 1, ps[k].objects, 1))
       \o PipelineCommands(ps, k + 1)

\* The numbers of updateClearRGB.  An argument is <<>> when it is left
\* out and <<h>> for the number h/2, so that a fraction such as 0.5 can be
\* passed; a stored component n stands for n/255.
ByteScale == 255
Number(h) == <<h>>
Undefined == <<>>
\* 0, 0.5, 1, 255 and 300
ClearInputs == {Number(0), Number(1), Number(2), Number(510), Number(600)}
AlphaInputs == ClearInputs \cup {Undefined}

\* x ? ... : ... takes the second branch for undefined and for 0
Truthy(x) == x # Undefined /\ x[1] # 0
\* Math.floor(x)
Floor(x) == x[1] \div 2
\* x ? Math.floor(x)/255 : default
Channel(x, default) == IF Truthy(x) THEN Floor(x) ELSE default

-----------------------------------------------------------------------------
(* The operations *)

Init ==
  /\ limits \in [minUniformBufferOffsetAlignment : Alignments,
                 minStorageBufferOffsetAlignment : Alignments]
  /\ width = CanvasSize[1]
  /\ height = CanvasSize[2]
  /\ msaa = CreateTexture(CanvasSize[1], CanvasSize[2])
  /\ zbuffer = CreateTexture(CanvasSize[1], CanvasSize[2])
  /\ pipelines = <<>>
  /\ lastOp = "init"
  /\ lastErr = NoError
  /\ lastRet = NoRet
  /\ shader = "none"
  /\ pass = <<>>
  /\ clearColor = [r |-> 0, g |-> 0, b |-> 0, a |-> ByteScale]
  /\ clearArgs = <<>>

\* updateClearRGB(r, g, b, a)
UpdateClearRGB(r, g, b, a) ==
  /\ clearColor' = [r |-> Channel(r, 0),
                    g |-> Channel(g, 0),
                    b |-> Channel(b, 0),
                    a |-> Channel(a, ByteScale)]
  /\ clearArgs' = <<r, g, b, a>>
  /\ lastOp' = "updateClearRGB"
  /\ lastErr' = NoError
  /\ lastRet' = NoRet
  /\ shader' = "none"
  /\ pass' = <<>>
  /\ UNCHANGED <<limits, width, height, msaa, zbuffer, pipelines>>

\* variant of UpdateCanvas: the depth attachment is not reallocated
UpdateCanvasKeepDepth(w, h) ==
  /\ msaa' = CreateTexture(w, h)
  /\ width' = w
  /\ height' = h
  /\ lastOp' = "updateCanvas"
  /\ lastErr' = NoError
  /\ lastRet' = NoRet
  /\ shader' = "none"
  /\ pass' = <<>>
  /\ clearArgs' = <<>>
  /\ UNCHANGED <<clearColor, limits, pipelines, zbuffer>>

\* updateCanvas(w, h)
UpdateCanvas(w, h) ==
  /\ msaa' = CreateTexture(w, h)
  /\ zbuffer' = CreateTexture(w, h)
  /\ width' = w
  /\ height' = h
  /\ lastOp' = "updateCanvas"
  /\ lastErr' = NoError
  /\ lastRet' = NoRet
  /\ shader' = "none"
  /\ pass' = <<>>
  /\ clearArgs' = <<>>
  /\ UNCHANGED <<clearColor, limits, pipelines>>

\* addPipeline(shader, maxObjCount): no step of the method looks at
\* whether the shader text compiled
AddPipeline(shaderText, maxObjCount) ==
  /\ Len(pipelines) < MaxPipelines
  /\ pipelines' = Append(pipelines,
                         [objects |-> <<>>,
                          bindGroup0 |-> AddBindGroup(maxObjCount),
                          maxObjCount |-> maxObjCount])
  /\ lastOp' = "addPipeline"
  /\ lastErr' = NoError
  /\ lastRet' = Len(pipelines') - 1
  /\ shader' = shaderText
  /\ pass' = <<>>
  /\ clearArgs' = <<>>
  /\ UNCHANGED <<clearColor, limits, width, height, msaa, zbuffer>>

\* addObject(pipelineId, verts, uvs, normals, customBind) with verts.length = vlen
AddObject(pipelineId, vlen, customBind) ==
  /\ lastOp' = "addObject"
  /\ shader' = "none"
  /\ pass' = <<>>
  /\ clearArgs' = <<>>
  /\ UNCHANGED <<clearColor, limits, width, height, msaa, zbuffer>>
  /\ IF AddObjectError(pipelineId, vlen) # NoError
     THEN /\ pipelines' = pipelines
          /\ lastErr' = AddObjectError(pipelineId, vlen)
          /\ lastRet' = NoRet
     ELSE LET p == Find(pipelines, pipelineId)
              id == NextSlot(pipelines[p])
              obj == [visible |-> TRUE,
                      vertexCount |-> vlen,
                      pipelineIndex |-> id,
                      customBindGroup |->
                        IF customBind THEN <<AddBindGroup(1)>> ELSE <<>>]
              pushed == [pipelines EXCEPT ![p].objects = Append(@, obj)]
              err == UpdateObjectError(pushed, pipelineId, id)
          IN  /\ TotalObjects(pipelines, 1) < MaxObjects
              /\ IF err # NoError
                 THEN /\ pipelines' = pushed
                      /\ lastErr' = err
                      /\ lastRet' = NoRet
                 ELSE /\ pipelines' = ApplyUpdate(pushed, pipelineId, id, "undefined")
                      /\ lastErr' = NoError
                      /\ lastRet' = id

\* updateObject({pipelineId, objectId, visible, ...})
UpdateObject(pipelineId, objectId, visible) ==
  /\ lastErr' = UpdateObjectError(pipelines, pipelineId, objectId)
  /\ lastOp' = "updateObject"
  /\ lastRet' = NoRet
  /\ shader' = "none"
  /\ pass' = <<>>
  /\ clearArgs' = <<>>
  /\ UNCHANGED <<clearColor, limits, width, height, msaa, zbuffer>>
  /\ IF UpdateObjectError(pipelines, pipelineId, objectId) # NoError
     THEN pipelines' = pipelines
     ELSE pipelines' = ApplyUpdate(pipelines, pipelineId, objectId, visible)

\* draw(), called for a render of the pipeline list req: the method
\* declares no parameter, so the list is not looked at
Draw(req) ==
  /\ pass' = PipelineCommands(pipelines, 1)
  /\ lastOp' = "draw"
  /\ lastErr' = NoError
  /\ lastRet' = NoRet
  /\ shader' = "none"
  /\ clearArgs' = <<>>
  /\ UNCHANGED <<clearColor, limits, width, height, msaa, zbuffer, pipelines>>

Next ==
  \/ \E s \in Sizes : UpdateCanvas(s[1], s[2])
  \/ \E t \in Shaders, k \in ObjCounts : AddPipeline(t, k)
  \/ \E p \in PipelineIds, n \in VertexCounts, c \in BOOLEAN : AddObject(p, n, c)
  \/ \E p \in PipelineIds, o \in ObjectIds, v \in VisibleInputs : UpdateObject(p, o, v)
  \/ \E r \in Requests : Draw(r)

Spec == Init /\ [][Next]_vars

\* The clear colour is written by updateClearRGB alone and read by no
\* method but draw(), which hands it to the pass as its clearValue; the
\* calls of updateClearRGB are explored on their own.
NextClear ==
  \E r \in ClearInputs, g \in ClearInputs, b \in ClearInputs, a \in AlphaInputs :
     UpdateClearRGB(r, g, b, a)

ClearSpec == Init /\ [][NextClear]_vars

-----------------------------------------------------------------------------
(* Properties *)

Pipes == 1..Len(pipelines)
Objs(p) == 1..Len(pipelines[p].objects)
IsRegistered(pipelineId) == pipelineId \in 0..(Len(pipelines) - 1)
HasObject(pipelineId, objectId) ==
  /\ IsRegistered(pipelineId)
  /\ objectId \in 0..(Len(pipelines[pipelineId + 1].objects) - 1)

\* the draw commands of the pass, in order, as <<pipeline id, object id>>
RECURSIVE DrawsFrom(_, _)
DrawsFrom(cmds, k) ==
  IF k > Len(cmds) THEN <<>>
  ELSE (IF cmds[k].cmd = "draw" THEN <<<<cmds[k].pipeline, cmds[k].object>>>> ELSE <<>>)
       \o DrawsFrom(cmds, k + 1)

\* how many draw commands of the pass are for object o of pipeline p (positions)
DrawCount(p, o) ==
  Cardinality({k \in DOMAIN pass :
                 /\ pass[k].cmd = "draw"
                 /\ pass[k].pipeline = p - 1
                 /\ pass[k].object = o - 1})

\* C1: within every pipeline the slot indices grow strictly with the
\* order in which addObject stored the objects, so no two objects of a
\* pipeline hold the same slot index.
SlotsStrictlyIncreasing ==
  \A p \in Pipes : \A i, j \in Objs(p) :
     i < j => pipelines[p].objects[i].pipelineIndex
                < pipelines[p].objects[j].pipelineIndex

\* C1 witness: a pipeline holding two objects with slot indices 0 and 1
TwoObjectsInOnePipeline ==
  \E p \in Pipes :
     /\ Len(pipelines[p].objects) = 2
     /\ pipelines[p].objects[1].pipelineIndex = 0
     /\ pipelines[p].objects[2].pipelineIndex = 1

\* the stride the claim C2 names: max(alignment, transform block size)
AlignedTransformBlockSize == Max(limits.minUniformBufferOffsetAlignment, MvpBytes)

\* C2 (as claimed): the primary uniform buffer of a pipeline registered
\* with maxObjCount = K holds K strides of max(alignment, 192) bytes, and
\* the 192 bytes updateObject writes for an object stay clear of the byte
\* range of every other slot.
UniformSlotsDisjoint ==
  \A p \in Pipes :
     /\ pipelines[p].bindGroup0.mvpBuffer.size
          >= pipelines[p].maxObjCount * AlignedTransformBlockSize
     /\ \A i \in Objs(p) : \A slot \in 0..(pipelines[p].maxObjCount - 1) :
          slot # pipelines[p].objects[i].pipelineIndex =>
            \/ WriteOffset(pipelines[p].objects[i]) + MvpBytes
                 <= slot * AlignedTransformBlockSize
            \/ WriteOffset(pipelines[p].objects[i])
                 >= (slot + 1) * AlignedTransformBlockSize

\* C3 (as claimed): every object of a pipeline registered with
\* maxObjCount = K has a slot index in [0, K).
SlotsWithinCapacity ==
  \A p \in Pipes : \A i \in Objs(p) :
     pipelines[p].objects[i].pipelineIndex \in 0..(pipelines[p].maxObjCount - 1)

\* C4: the pass of a draw holds exactly one draw command for every object
\* whose visibility flag is true, none for an object whose flag is false,
\* and none for anything that is not a stored object.
OneDrawPerVisibleObject ==
  lastOp = "draw" =>
    /\ \A p \in Pipes : \A o \in Objs(p) :
         DrawCount(p, o) = IF pipelines[p].objects[o].visible THEN 1 ELSE 0
    /\ \A k \in DOMAIN pass :
         pass[k].cmd = "draw" => HasObject(pass[k].pipeline, pass[k].object)

\* C4 witness: two objects, the second hidden, one draw issued: for the first
HiddenSecondObjectSkipped ==
  /\ lastOp = "draw"
  /\ \E p \in Pipes :
       /\ Len(pipelines[p].objects) = 2
       /\ pipelines[p].objects[1].visible
       /\ ~pipelines[p].objects[2].visible
       /\ DrawsFrom(pass, 1) = <<<<p - 1, 0>>>>

\* the visible objects of pipeline position p from object position k on
RECURSIVE VisibleFrom(_, _)
VisibleFrom(p, k) ==
  IF k > Len(pipelines[p].objects) THEN <<>>
  ELSE (IF pipelines[p].objects[k].visible THEN <<<<p - 1, k - 1>>>> ELSE <<>>)
       \o VisibleFrom(p, k + 1)

\* the draws a render of the pipeline list req is to issue, from position k on
RECURSIVE RequestedDraws(_, _)
RequestedDraws(req, k) ==
  IF k > Len(req) THEN <<>>
  ELSE (IF IsRegistered(req[k]) THEN VisibleFrom(req[k] + 1, 1) ELSE <<>>)
       \o RequestedDraws(req, k + 1)

\* C5 (as claimed): a render of a pipeline list draws the visible objects
\* of the listed pipelines only, pipelines in the order of the list and
\* objects in insertion order; an empty list issues no draw.
RenderDrawsOnlyRequested ==
  [][\A req \in Requests :
        Draw(req) => DrawsFrom(pass', 1) = RequestedDraws(req, 1)]_vars

\* the uniform buffer a draw command binds
BoundBuffer(c) ==
  IF c.bind = "private"
  THEN pipelines[c.pipeline + 1].objects[c.object + 1].customBindGroup[1].mvpBuffer
  ELSE pipelines[c.pipeline + 1].bindGroup0.mvpBuffer

\* C6 (as claimed): the range every draw command binds holds the
\* transform block of the object drawn.
DrawnRangesWritten ==
  lastOp = "draw" =>
    \A k \in DOMAIN pass :
       pass[k].cmd = "draw" =>
         [lo |-> pass[k].offset, hi |-> pass[k].offset + MvpBytes,
          owner |-> pass[k].object] \in BoundBuffer(pass[k]).data

\* C7: an addObject call with fewer than 3 positions or with a pipeline id
\* that names no registered pipeline throws (no step that returns
\* normally is such a call), and every addObject call that throws leaves
\* the pipelines and their object lists as they were.
FailedAddObjectLeavesStore ==
  [][lastOp' = "addObject" =>
       /\ lastErr' = NoError =>
            \A p \in PipelineIds, n \in VertexCounts, c \in BOOLEAN :
               (n < 3 \/ ~IsRegistered(p)) => ~AddObject(p, n, c)
       /\ lastErr' # NoError => pipelines' = pipelines
    ]_vars

\* C7 witness: addObject has thrown with a pipeline and an object stored
AddObjectFailed ==
  /\ lastOp = "addObject"
  /\ lastErr \in {ErrVertices, ErrTypeError}
  /\ TotalObjects(pipelines, 1) > 0

\* C8 (as claimed): an addPipeline call with malformed shader text throws,
\* returns no id and leaves the pipeline list at its length.
MalformedShaderNotRegistered ==
  [][(lastOp' = "addPipeline" /\ shader' = "malformed")
       => /\ lastErr' # NoError
          /\ lastRet' = NoRet
          /\ Len(pipelines') = Len(pipelines)
    ]_vars

\* C9: an updateObject call whose pipeline id names no registered pipeline
\* or whose object id names no object of that pipeline throws (no step
\* that returns normally is such a call), and every updateObject call that
\* throws changes neither a visibility flag nor a uniform buffer.
FailedUpdateChangesNothing ==
  [][lastOp' = "updateObject" =>
       /\ lastErr' = NoError =>
            \A p \in PipelineIds, o \in ObjectIds :
               ~HasObject(p, o) => \A v \in VisibleInputs : ~UpdateObject(p, o, v)
       /\ lastErr' # NoError => pipelines' = pipelines
    ]_vars

\* C9 witness: updateObject has thrown for an unknown object of a
\* registered pipeline that holds an object
UpdateObjectFailed ==
  /\ lastOp = "updateObject"
  /\ lastErr = ErrObject
  /\ TotalObjects(pipelines, 1) > 0

\* C10: both attachments have the recorded width and height, which are
\* those of the latest updateCanvas, and a draw throws nothing.
AttachmentsMatchSize ==
  /\ msaa = [width |-> width, height |-> height]
  /\ zbuffer = [width |-> width, height |-> height]
  /\ <<width, height>> \in Sizes \cup {CanvasSize}
  /\ lastOp = "draw" => lastErr = NoError

\* C10 witness: a draw with the attachments at 400x300, after a resize
\* from the 800x600 canvas
DrawAfterResize ==
  /\ lastOp = "draw"
  /\ msaa = [width |-> 400, height |-> 300]
  /\ zbuffer = [width |-> 400, height |-> 300]

\* a stored component n/255 lies in [0, 1]
InUnitRange(n) == 0 <= n /\ n <= ByteScale
\* a supplied number h/2 lies in [0, 1]
SuppliedInRange(x) == x # Undefined /\ 0 <= x[1] /\ x[1] <= 2
\* the stored n/255 is the supplied h/2
StoredAsSupplied(x, n) == 2 * n = ByteScale * x[1]
ClampedToDefault(x, n, default) ==
  /\ InUnitRange(n)
  /\ IF SuppliedInRange(x) THEN StoredAsSupplied(x, n) ELSE n = default

\* C11 (as claimed): after a call that sets the clear colour every stored
\* component lies in [0, 1]; a component left out or outside [0, 1] is
\* stored as its default (0 for r, g, b and 1 for alpha) and a component
\* inside [0, 1] is stored as supplied.
ClearColorNormalized ==
  lastOp = "updateClearRGB" =>
    /\ ClampedToDefault(clearArgs[1], clearColor.r, 0)
    /\ ClampedToDefault(clearArgs[2], clearColor.g, 0)
    /\ ClampedToDefault(clearArgs[3], clearColor.b, 0)
    /\ ClampedToDefault(clearArgs[4], clearColor.a, ByteScale)

\* C12 (as claimed): every draw of an object through the shared bind
\* group of its pipeline binds the dynamic offset at which updateObject
\* wrote the transform block of that object, whatever the two alignment
\* limits of the device are.
DrawOffsetIsWriteOffset ==
  lastOp = "draw" =>
    \A k \in DOMAIN pass :
       (pass[k].cmd = "draw" /\ pass[k].bind = "shared") =>
         pass[k].offset
           = WriteOffset(pipelines[pass[k].pipeline + 1].objects[pass[k].object + 1])

\* the positions of the pass holding command cmd of pipeline p (position)
CommandsOf(cmd, p) ==
  {k \in DOMAIN pass : pass[k].cmd = cmd /\ pass[k].pipeline = p - 1}

\* C13 (as claimed): in the pass of one draw() a pipeline with a visible
\* object is bound by exactly one setPipeline, which precedes all draws of
\* its objects, and a pipeline with no visible object is not bound.
PipelineBoundOncePerPass ==
  lastOp = "draw" =>
    \A p \in Pipes :
       /\ Cardinality(CommandsOf("setPipeline", p))
            = IF \E o \in Objs(p) : pipelines[p].objects[o].visible THEN 1 ELSE 0
       /\ \A b \in CommandsOf("setPipeline", p), d \in CommandsOf("draw", p) : b < d

\* C14: an updateObject call that returns sets the visibility flag of its
\* object to the supplied value, and to true when the field is left out,
\* whatever the flag was before; a draw() records a draw command for every
\* object whose flag is true.
VisibleDefaultsToTrue ==
  [][/\ (lastOp' = "updateObject" /\ lastErr' = NoError) =>
          \A p \in PipelineIds, o \in ObjectIds :
             HasObject(p, o) =>
               \A v \in VisibleInputs :
                  pipelines'[p + 1].objects[o + 1].visible # (v # "false")
                    => ~UpdateObject(p, o, v)
     /\ lastOp' = "draw" =>
          \A p \in Pipes : \A o \in Objs(p) :
             pipelines[p].objects[o].visible =>
               \E k \in DOMAIN pass' :
                  /\ pass'[k].cmd = "draw"
                  /\ pass'[k].pipeline = p - 1
                  /\ pass'[k].object = o - 1
    ]_vars

\* C14 witness: updateObject has returned for a pipeline of two objects,
\* the first of which is hidden and the second visible
UpdateLeftOneHidden ==
  /\ lastOp = "updateObject"
  /\ lastErr = NoError
  /\ \E p \in Pipes :
       /\ Len(pipelines[p].objects) = 2
       /\ ~pipelines[p].objects[1].visible
       /\ pipelines[p].objects[2].visible

=============================================================================
